---- MODULE Spec2Model ----
(***************************************************************************)
(* jitproxy: lazy proxies that delay __init__ and __enter__/__aenter__ of  *)
(* an object until first use (src/src/jitproxy/jitproxy.py).               *)
(*                                                                         *)
(* The model is a set of callers (threads, or coroutines of one event      *)
(* loop), each with a call stack of frames. A frame is one activation of   *)
(* one method of a proxy; its pc names the source line it stands at. One   *)
(* action is one step of one frame between two points where another        *)
(* thread can observe or change the shared state.                          *)
(***************************************************************************)
EXTENDS Integers, Sequences, FiniteSets, TLC

VARIABLES
    prog,         \* the declared proxies: what each __init__ was given
    ops,          \* the top-level calls the program's callers make
    threadOf,     \* caller -> the thread it runs on
    registry,     \* BaseLazyProxy._proxy_registry
    args,         \* proxy -> self._args
    kwargs,       \* proxy -> self._kwargs
    obj,          \* proxy -> storage cell -> .obj (0 is None / absent)
    inited,       \* proxy -> storage cell -> .inited
    entered,      \* proxy -> storage cell -> .entered
    init_lock,    \* proxy -> holder of self._init_lock (0 is free)
    enter_lock,   \* proxy -> holder of self._enter_lock / self._aenter_lock
    cleanup_lock, \* holder of BaseLazyProxy._cleanup_lock
    objs,         \* every instance of a proxied type that exists
    stack,        \* caller -> call stack
    susp,         \* caller -> suspended at an await
    result,       \* caller -> outcome of its last finished top-level call
    ncalls,       \* top-level calls started so far
    ncleanup,     \* cleanup invocations started so far
    nconf,        \* __call__ invocations so far (the declaration's included)
    nfail,        \* exceptions raised by constructors and hooks so far
    waited,       \* caller -> the proxy whose hook raised in another caller
                  \* while this caller's current call waited for the proxy's
                  \* lock (0 is none): history, which no action reads
    ignored       \* ids of the __call__ invocations that took the warning branch

vars == <<prog, ops, threadOf, registry, args, kwargs, obj, inited, entered,
          init_lock, enter_lock, cleanup_lock, objs, stack, susp, result,
          ncalls, ncleanup, nconf, nfail, waited, ignored>>

(***************************************************************************)
(* Bounds.                                                                 *)
(***************************************************************************)
NThreads == 2
MaxCalls == 3
MaxConf == 1
MaxFail == 1
MaxCleanup == 2

Callers == DOMAIN threadOf
MainThread == 1
GlobalCell == 0

(***************************************************************************)
(* The declared proxies. A program is what the module-level declarations   *)
(* pass to __init__ and to the declaration's own __call__:                 *)
(*   kind   "std" StandardLazyProxy, "aio" AIOLazyProxy                    *)
(*   bound  "type" a class was passed, "inst" a built object               *)
(*   tl     the thread_local parameter: "none", "true" or "false"          *)
(*   hooks  what the proxied type defines: "sync" __enter__/__exit__,      *)
(*          "async" __aenter__/__aexit__, "both", "none"                   *)
(*   a, k   the proxies among the declaration's args and kwargs            *)
(***************************************************************************)
Decl(kind, bound, tl, hooks, a, k) ==
    [kind |-> kind, bound |-> bound, tl |-> tl, hooks |-> hooks, a |-> a, k |-> k]

Proxies == DOMAIN prog

HasEnter(p) == prog[p].hooks \in {"sync", "both"}
HasExit(p) == prog[p].hooks \in {"sync", "both"}
HasAEnter(p) == prog[p].hooks \in {"async", "both"}
HasAExit(p) == prog[p].hooks \in {"async", "both"}

\* self._args = None / self._kwargs = None of an instance-bound proxy
NoneArgs == [id |-> -1, deps |-> <<>>]

\* __init__, lines 39-44: the storage scope of a proxy
ThreadLocal(d) ==
    IF d.tl = "none" THEN d.bound = "type" ELSE d.tl = "true"

Cells == {GlobalCell} \cup {threadOf[c] : c \in Callers}

\* _correct_storage as it would be if it ignored self._thread_local.
CorrectStorageShared(p, c) == GlobalCell

\* _correct_storage, lines 97-101, for the proxy p read by caller c
CorrectStorage(p, c) ==
    IF ThreadLocal(prog[p]) THEN threadOf[c] ELSE GlobalCell

IsInited(p, c) == inited[p][CorrectStorage(p, c)]
IsEntered(p, c) == entered[p][CorrectStorage(p, c)]
GetObj(p, c) == obj[p][CorrectStorage(p, c)]

(***************************************************************************)
(* Instances. An instance records the proxy it belongs to, the __call__    *)
(* invocations its constructor's args and kwargs came from, the instances  *)
(* it was constructed with, and how often its activation hook has been     *)
(* invoked (started) and has returned (done) and its deactivation hook has *)
(* been invoked (exits).                                                   *)
(***************************************************************************)
NewObj(p, aid, kid, with) ==
    [of |-> p, a |-> aid, k |-> kid, with |-> with,
     started |-> 0, done |-> 0, exits |-> 0]

\* The instances the declarations were given, in declaration order.
RECURSIVE BoundObjs(_, _)
BoundObjs(pr, n) ==
    IF n = 0 THEN <<>>
    ELSE IF pr[n].bound = "inst"
         THEN Append(BoundObjs(pr, n - 1), NewObj(n, -1, -1, {}))
         ELSE BoundObjs(pr, n - 1)

BoundObjOf(pr, p) == Len(BoundObjs(pr, p))

\* The proxies that a thread creates at run time; the others are created
\* by the main thread when the module is imported.
Late(o) == {x.p : x \in {y \in o : y.op = "create"}}

\* __init__, lines 37-65, then the declaration's __call__, lines 67-75,
\* run by the main thread for every proxy declared at module level.
InitOf(pr, th, o) ==
    /\ prog = pr
    /\ ops = o
    /\ threadOf = th
    /\ registry = LET AtImport(p) == p \notin Late(o)
                  IN SelectSeq([i \in 1..Len(pr) |-> i], AtImport)
    /\ args = [p \in DOMAIN pr |->
                 IF pr[p].bound = "inst" \/ p \in Late(o) THEN NoneArgs
                 ELSE [id |-> p, deps |-> pr[p].a]]
    /\ kwargs = [p \in DOMAIN pr |->
                 IF pr[p].bound = "inst" \/ p \in Late(o) THEN NoneArgs
                 ELSE [id |-> p, deps |-> pr[p].k]]
    /\ LET cells == {GlobalCell} \cup {th[c] : c \in DOMAIN th}
           mine(p) == IF ThreadLocal(pr[p]) THEN MainThread ELSE GlobalCell
       IN /\ obj = [p \in DOMAIN pr |-> [x \in cells |->
                     IF pr[p].bound = "inst" /\ x = mine(p) /\ p \notin Late(o)
                     THEN BoundObjOf(pr, p) ELSE 0]]
          /\ inited = [p \in DOMAIN pr |-> [x \in cells |->
                     pr[p].bound = "inst" /\ x = mine(p) /\ p \notin Late(o)]]
          /\ entered = [p \in DOMAIN pr |-> [x \in cells |-> FALSE]]
    /\ init_lock = [p \in DOMAIN pr |-> 0]
    /\ enter_lock = [p \in DOMAIN pr |-> 0]
    /\ cleanup_lock = 0
    /\ objs = BoundObjs(pr, Len(pr))
    /\ stack = [c \in DOMAIN th |-> <<>>]
    /\ susp = [c \in DOMAIN th |-> FALSE]
    /\ result = [c \in DOMAIN th |-> [op |-> "none", p |-> 0, val |-> 0, err |-> FALSE]]
    /\ ncalls = 0
    /\ ncleanup = 0
    /\ nconf = Len(pr)
    /\ nfail = 0
    /\ waited = [c \in DOMAIN th |-> 0]
    /\ ignored = {}

(***************************************************************************)
(* Call stacks. A frame: fn the method, p the proxy, pc the place in the   *)
(* method, deps/i the proxies a loop walks and its position, aid/kid the   *)
(* __call__ invocations the args and kwargs read came from, got the        *)
(* instances returned by the calls of a comprehension (for a cleanup, the  *)
(* instances that were activated when it was called: history, which no     *)
(* action reads), rv the value the last call returned, held whether the    *)
(* frame is inside its with block.                                         *)
(* An action is one access to shared state with the local steps that       *)
(* follow it.                                                              *)
(***************************************************************************)
NewFrame(fn, p) ==
    [fn |-> fn, p |-> p, pc |-> "check", i |-> 1, deps |-> <<>>, deps2 |-> <<>>,
     aid |-> 0, kid |-> 0, got |-> {}, rv |-> 0, held |-> FALSE]

Top(c) == stack[c][Len(stack[c])]

\* A caller runs when it is inside a call and not suspended at an await.
Running(c) == stack[c] # <<>> /\ ~susp[c]

\* No other caller of c's thread is running: threads preempt one another,
\* the coroutines of one event loop do not.
Alone(c) ==
    \A d \in Callers \ {c} : threadOf[d] = threadOf[c] => ~Running(d)

At(c, fn, pc) == Running(c) /\ Top(c).fn = fn /\ Top(c).pc = pc

Goto(c, pc) == stack' = [stack EXCEPT ![c][Len(stack[c])].pc = pc]

With(c, f) == stack' = [stack EXCEPT ![c][Len(stack[c])] = f]

\* The top frame becomes f and calls child.
Call(c, f, child) ==
    stack' = [stack EXCEPT ![c] = Append([@ EXCEPT ![Len(@)] = f], child)]

\* The top frame returns val to its caller, or ends the top-level call.
Return(c, val) ==
    LET n == Len(stack[c]) IN
    IF n = 1
    THEN /\ stack' = [stack EXCEPT ![c] = <<>>]
         /\ result' = [result EXCEPT ![c] =
                [op |-> Top(c).fn, p |-> Top(c).p, val |-> val, err |-> FALSE]]
    ELSE /\ stack' = [stack EXCEPT ![c] =
                Append(SubSeq(@, 1, n - 2),
                       [@[n - 1] EXCEPT !.rv = val,
                            !.got = IF stack[c][n - 1].fn = "init"
                                    THEN @ \cup {val} ELSE @])]
         /\ UNCHANGED result

static == <<prog, ops, threadOf, registry>>
conf == <<args, kwargs, nconf, ignored>>
cellv == <<obj, inited, entered>>
locks == <<init_lock, enter_lock, cleanup_lock>>
sched == <<susp, ncalls, ncleanup>>

(***************************************************************************)
(* Exceptions. A frame that raises stands at pc "raise"; leaving it        *)
(* releases the lock of its with block and raises in its caller.           *)
(***************************************************************************)
\* Unwinding as it would be if the locks were acquired and released by hand
\* instead of by with blocks: an exception leaves them held.
UnwindNoRelease(c) ==
    /\ Running(c) /\ Top(c).pc = "raise"
    /\ LET f == Top(c)
           n == Len(stack[c])
       IN IF n = 1
          THEN /\ stack' = [stack EXCEPT ![c] = <<>>]
               /\ result' = [result EXCEPT ![c] =
                     [op |-> f.fn, p |-> f.p, val |-> 0, err |-> TRUE]]
          ELSE /\ stack' = [stack EXCEPT ![c] =
                     Append(SubSeq(@, 1, n - 2), [@[n - 1] EXCEPT !.pc = "raise"])]
               /\ UNCHANGED result
    /\ UNCHANGED <<static, conf, cellv, locks, objs, sched, nfail, waited>>

Unwind(c) ==
    /\ Running(c) /\ Top(c).pc = "raise"
    /\ LET f == Top(c)
           n == Len(stack[c])
       IN /\ init_lock' = IF f.held /\ f.fn = "init"
                          THEN [init_lock EXCEPT ![f.p] = 0] ELSE init_lock
          /\ enter_lock' = IF f.held /\ f.fn \in {"enter", "aenter"}
                           THEN [enter_lock EXCEPT ![f.p] = 0] ELSE enter_lock
          /\ cleanup_lock' = IF f.held /\ f.fn \in {"cleanup_sync", "cleanup"}
                             THEN 0 ELSE cleanup_lock
          /\ IF n = 1
             THEN /\ stack' = [stack EXCEPT ![c] = <<>>]
                  /\ result' = [result EXCEPT ![c] =
                        [op |-> f.fn, p |-> f.p, val |-> 0, err |-> TRUE]]
             ELSE /\ stack' = [stack EXCEPT ![c] =
                        Append(SubSeq(@, 1, n - 2), [@[n - 1] EXCEPT !.pc = "raise"])]
                  /\ UNCHANGED result
    /\ UNCHANGED <<static, conf, cellv, objs, sched, nfail, waited>>

(***************************************************************************)
(* BaseLazyProxy._init_if_necessary, lines 77-95.                          *)
(***************************************************************************)
\* A loop over the proxies in deps: call fn of the next one (for "activate",
\* _enter_if_necessary of a StandardLazyProxy and _aenter_if_necessary of an
\* AIOLazyProxy), or go on to pc after when none is left.
NextDep(c, f, fn, after) ==
    IF f.i <= Len(f.deps)
    THEN Call(c, [f EXCEPT !.i = f.i + 1],
              NewFrame(IF fn # "activate" THEN fn
                       ELSE IF prog[f.deps[f.i]].kind = "std" THEN "enter"
                       ELSE "aenter",
                       f.deps[f.i]))
    ELSE With(c, [f EXCEPT !.pc = after])

\* line 79: the unlocked check; line 95 when the object is there
InitCheck(c) ==
    /\ At(c, "init", "check")
    /\ IF IsInited(Top(c).p, c)
       THEN Return(c, GetObj(Top(c).p, c))
       ELSE Goto(c, "lock") /\ UNCHANGED result
    /\ UNCHANGED <<static, conf, cellv, locks, objs, sched, nfail, waited>>

\* _init_if_necessary without the second check of line 81.
InitLockNoRecheck(c) ==
    /\ At(c, "init", "lock")
    /\ init_lock[Top(c).p] = 0
    /\ With(c, [Top(c) EXCEPT !.pc = "args", !.held = TRUE])
    /\ init_lock' = [init_lock EXCEPT ![Top(c).p] = c]
    /\ UNCHANGED <<static, conf, cellv, enter_lock, cleanup_lock, objs, sched,
                   result, nfail, waited>>

\* lines 80-81: acquire self._init_lock, check again; lines 90-95 when
\* another caller built the object meanwhile
InitLock(c) ==
    /\ At(c, "init", "lock")
    /\ init_lock[Top(c).p] = 0
    /\ IF IsInited(Top(c).p, c)
       THEN /\ Return(c, GetObj(Top(c).p, c))
            /\ UNCHANGED init_lock
       ELSE /\ With(c, [Top(c) EXCEPT !.pc = "args", !.held = TRUE])
            /\ init_lock' = [init_lock EXCEPT ![Top(c).p] = c]
            /\ UNCHANGED result
    /\ UNCHANGED <<static, conf, cellv, enter_lock, cleanup_lock, objs, sched,
                   nfail, waited>>

\* line 85: read self._args; iterating None raises TypeError
InitArgs(c) ==
    /\ At(c, "init", "args")
    /\ LET a == args[Top(c).p] IN
       IF a = NoneArgs
       THEN Goto(c, "raise")
       ELSE NextDep(c, [Top(c) EXCEPT !.pc = "argloop", !.deps = a.deps,
                                      !.aid = a.id, !.i = 1], "init", "kwargs")
    /\ UNCHANGED <<static, conf, cellv, locks, objs, sched, result, nfail, waited>>

\* line 85: arg.unmanaged_object of the next proxy among the args
InitArgLoop(c) ==
    /\ At(c, "init", "argloop")
    /\ NextDep(c, Top(c), "init", "kwargs")
    /\ UNCHANGED <<static, conf, cellv, locks, objs, sched, result, nfail, waited>>

\* line 86: read self._kwargs; None has no items()
InitKwargs(c) ==
    /\ At(c, "init", "kwargs")
    /\ LET k == kwargs[Top(c).p] IN
       IF k = NoneArgs
       THEN Goto(c, "raise")
       ELSE NextDep(c, [Top(c) EXCEPT !.pc = "kwloop", !.deps = k.deps,
                                      !.kid = k.id, !.i = 1], "init", "construct")
    /\ UNCHANGED <<static, conf, cellv, locks, objs, sched, result, nfail, waited>>

\* line 86: arg.unmanaged_object of the next proxy among the kwargs
InitKwLoop(c) ==
    /\ At(c, "init", "kwloop")
    /\ NextDep(c, Top(c), "init", "construct")
    /\ UNCHANGED <<static, conf, cellv, locks, objs, sched, result, nfail, waited>>

\* lines 88-95: the constructor returns; store the object, set inited, leave
\* the with block, return the object
InitConstruct(c) ==
    /\ At(c, "init", "construct")
    /\ LET f == Top(c)
           x == CorrectStorage(f.p, c)
           id == Len(objs) + 1
       IN /\ objs' = Append(objs, NewObj(f.p, f.aid, f.kid, f.got))
          /\ obj' = [obj EXCEPT ![f.p][x] = id]
          /\ inited' = [inited EXCEPT ![f.p][x] = TRUE]
          /\ init_lock' = [init_lock EXCEPT ![f.p] = 0]
          /\ Return(c, id)
    /\ UNCHANGED <<static, conf, entered, enter_lock, cleanup_lock, sched, nfail, waited>>

\* _init_if_necessary as it would be if inited were stored before the
\* constructor is called: a raising constructor leaves it set.
InitConstructRaiseInited(c) ==
    /\ At(c, "init", "construct")
    /\ nfail < MaxFail
    /\ nfail' = nfail + 1
    /\ UNCHANGED waited
    /\ inited' = [inited EXCEPT ![Top(c).p][CorrectStorage(Top(c).p, c)] = TRUE]
    /\ Goto(c, "raise")
    /\ UNCHANGED <<static, conf, obj, entered, locks, objs, sched, result>>

\* line 88: the constructor raises
InitConstructRaise(c) ==
    /\ At(c, "init", "construct")
    /\ nfail < MaxFail
    /\ nfail' = nfail + 1
    /\ UNCHANGED waited
    /\ Goto(c, "raise")
    /\ UNCHANGED <<static, conf, cellv, locks, objs, sched, result>>

(***************************************************************************)
(* StandardLazyProxy._enter_if_necessary, lines 248-269.                   *)
(***************************************************************************)
IsStd(p) == prog[p].kind = "std"

\* line 269: return self.unmanaged_object
ReturnObject(c, f) == Call(c, [f EXCEPT !.pc = "retval"], NewFrame("init", f.p))

\* _enter_if_necessary without the check of line 249: every call takes
\* the lock and checks under it.
EnterCheckLocked(c) ==
    /\ At(c, "enter", "check")
    /\ Goto(c, "lock")
    /\ UNCHANGED <<static, conf, cellv, locks, objs, sched, result, nfail, waited>>

\* line 249: the unlocked check
EnterCheck(c) ==
    /\ At(c, "enter", "check")
    /\ IF IsEntered(Top(c).p, c)
       THEN ReturnObject(c, Top(c))
       ELSE Goto(c, "lock")
    /\ UNCHANGED <<static, conf, cellv, locks, objs, sched, result, nfail, waited>>

\* _enter_if_necessary without the second check of line 251.
EnterLockNoRecheck(c) ==
    /\ At(c, "enter", "lock")
    /\ enter_lock[Top(c).p] = 0
    /\ With(c, [Top(c) EXCEPT !.pc = "args", !.held = TRUE])
    /\ enter_lock' = [enter_lock EXCEPT ![Top(c).p] = c]
    /\ UNCHANGED <<static, conf, cellv, init_lock, cleanup_lock, objs, sched,
                   result, nfail, waited>>

\* lines 250-251: acquire self._enter_lock, check again
EnterLock(c) ==
    /\ At(c, "enter", "lock")
    /\ enter_lock[Top(c).p] = 0
    /\ IF IsEntered(Top(c).p, c)
       THEN /\ ReturnObject(c, Top(c))
            /\ UNCHANGED enter_lock
       ELSE /\ With(c, [Top(c) EXCEPT !.pc = "args", !.held = TRUE])
            /\ enter_lock' = [enter_lock EXCEPT ![Top(c).p] = c]
    /\ UNCHANGED <<static, conf, cellv, init_lock, cleanup_lock, objs, sched,
                   result, nfail, waited>>

\* lines 255-257: read self._args (iterating None raises TypeError) and
\* enter the first StandardLazyProxy among them
EnterArgs(c) ==
    /\ At(c, "enter", "args")
    /\ LET a == args[Top(c).p] IN
       IF a = NoneArgs
       THEN Goto(c, "raise")
       ELSE NextDep(c, [Top(c) EXCEPT !.pc = "argloop", !.i = 1,
                                      !.deps = SelectSeq(a.deps, IsStd)],
                    "enter", "kwargs")
    /\ UNCHANGED <<static, conf, cellv, locks, objs, sched, result, nfail, waited>>

\* lines 255-257: enter the next StandardLazyProxy among the args
EnterArgLoop(c) ==
    /\ At(c, "enter", "argloop")
    /\ NextDep(c, Top(c), "enter", "kwargs")
    /\ UNCHANGED <<static, conf, cellv, locks, objs, sched, result, nfail, waited>>

\* lines 259-261: read self._kwargs (None has no values()) and enter the
\* first StandardLazyProxy among them
EnterKwargs(c) ==
    /\ At(c, "enter", "kwargs")
    /\ LET k == kwargs[Top(c).p] IN
       IF k = NoneArgs
       THEN Goto(c, "raise")
       ELSE NextDep(c, [Top(c) EXCEPT !.pc = "kwloop", !.i = 1,
                                      !.deps = SelectSeq(k.deps, IsStd)],
                    "enter", "object")
    /\ UNCHANGED <<static, conf, cellv, locks, objs, sched, result, nfail, waited>>

\* lines 259-261: enter the next StandardLazyProxy among the kwargs
EnterKwLoop(c) ==
    /\ At(c, "enter", "kwloop")
    /\ NextDep(c, Top(c), "enter", "object")
    /\ UNCHANGED <<static, conf, cellv, locks, objs, sched, result, nfail, waited>>

\* line 264: self.unmanaged_object
EnterObject(c) ==
    /\ At(c, "enter", "object")
    /\ Call(c, [Top(c) EXCEPT !.pc = "hasattr"], NewFrame("init", Top(c).p))
    /\ UNCHANGED <<static, conf, cellv, locks, objs, sched, result, nfail, waited>>

\* The end of _enter_if_necessary as it would be with a lock acquired by
\* hand and not released after entered is stored.
StoreEnteredKeepLock(c, f) ==
    /\ entered' = [entered EXCEPT ![f.p][CorrectStorage(f.p, c)] = TRUE]
    /\ enter_lock' = enter_lock
    /\ ReturnObject(c, [f EXCEPT !.held = FALSE])

\* line 267 and the end of the with block: store entered, release the lock
StoreEntered(c, f) ==
    /\ entered' = [entered EXCEPT ![f.p][CorrectStorage(f.p, c)] = TRUE]
    /\ enter_lock' = [enter_lock EXCEPT ![f.p] = 0]
    /\ ReturnObject(c, [f EXCEPT !.held = FALSE])

\* lines 264-267: the object has __enter__: call it; it has none: store
\* entered and leave the with block
EnterHasattr(c) ==
    /\ At(c, "enter", "hasattr")
    /\ LET f == Top(c) IN
       IF HasEnter(f.p)
       THEN /\ objs' = [objs EXCEPT ![f.rv].started = @ + 1]
            /\ Goto(c, "hook")
            /\ UNCHANGED <<entered, enter_lock>>
       ELSE /\ StoreEntered(c, f)
            /\ UNCHANGED objs
    /\ UNCHANGED <<static, conf, obj, inited, init_lock, cleanup_lock, sched,
                   result, nfail, waited>>

\* lines 266-267: __enter__ returns; store entered and leave the with block
EnterHook(c) ==
    /\ At(c, "enter", "hook")
    /\ objs' = [objs EXCEPT ![Top(c).rv].done = @ + 1]
    /\ StoreEntered(c, Top(c))
    /\ UNCHANGED <<static, conf, obj, inited, init_lock, cleanup_lock, sched,
                   result, nfail, waited>>

\* The caller's top frame waits for the lock of _enter_if_necessary or
\* _aenter_if_necessary of p (lines 250, 187).
Waiting(d, p) ==
    /\ stack[d] # <<>>
    /\ Top(d).fn \in {"enter", "aenter"} /\ Top(d).p = p /\ Top(d).pc = "lock"

\* The hook of p raises in caller c: note the callers waiting for p's lock.
NoteWaiting(c, p) ==
    waited' = [d \in Callers |->
                 IF d # c /\ Waiting(d, p) THEN p ELSE waited[d]]

\* The frames of the callers waiting for p's lock raise as well.
RaiseInWaiting(c, p) ==
    stack' = [d \in Callers |->
                IF d = c \/ Waiting(d, p)
                THEN [stack[d] EXCEPT ![Len(stack[d])].pc = "raise"]
                ELSE stack[d]]

\* _enter_if_necessary as it would be if the callers shared the outcome of
\* one activation (a future set by the first caller): the exception of
\* __enter__ is raised in every caller waiting for the lock.
EnterHookRaiseShared(c) ==
    /\ At(c, "enter", "hook")
    /\ nfail < MaxFail
    /\ nfail' = nfail + 1
    /\ NoteWaiting(c, Top(c).p)
    /\ RaiseInWaiting(c, Top(c).p)
    /\ UNCHANGED <<static, conf, cellv, locks, objs, sched, result>>

\* line 266: __enter__ raises
EnterHookRaise(c) ==
    /\ At(c, "enter", "hook")
    /\ nfail < MaxFail
    /\ nfail' = nfail + 1
    /\ NoteWaiting(c, Top(c).p)
    /\ Goto(c, "raise")
    /\ UNCHANGED <<static, conf, cellv, locks, objs, sched, result>>

\* line 269: the value of self.unmanaged_object is returned
EnterReturn(c) ==
    /\ At(c, "enter", "retval")
    /\ Return(c, Top(c).rv)
    /\ UNCHANGED <<static, conf, cellv, locks, objs, sched, nfail, waited>>

(***************************************************************************)
(* AIOLazyProxy._aenter_if_necessary, lines 182-214. A coroutine that      *)
(* awaits something not ready is suspended and the loop runs another one.  *)
(***************************************************************************)
\* line 183: the unlocked check
AEnterCheck(c) ==
    /\ At(c, "aenter", "check")
    /\ IF IsEntered(Top(c).p, c)
       THEN ReturnObject(c, Top(c))
       ELSE Goto(c, "lock")
    /\ UNCHANGED <<static, conf, cellv, locks, objs, sched, result, nfail, waited>>

\* line 187: self._aenter_lock is locked: wait for it
AEnterWait(c) ==
    /\ At(c, "aenter", "lock")
    /\ enter_lock[Top(c).p] # 0
    /\ susp' = [susp EXCEPT ![c] = TRUE]
    /\ UNCHANGED <<static, conf, cellv, locks, objs, stack, ncalls, ncleanup,
                   result, nfail, waited>>

\* lines 187-188: acquire self._aenter_lock, at once or when woken up, and
\* check again
AEnterLock(c) ==
    /\ stack[c] # <<>> /\ Top(c).fn = "aenter" /\ Top(c).pc = "lock"
    /\ susp[c] => Alone(c)
    /\ enter_lock[Top(c).p] = 0
    /\ susp' = [susp EXCEPT ![c] = FALSE]
    /\ IF IsEntered(Top(c).p, c)
       THEN /\ ReturnObject(c, Top(c))
            /\ UNCHANGED enter_lock
       ELSE /\ With(c, [Top(c) EXCEPT !.pc = "args", !.held = TRUE])
            /\ enter_lock' = [enter_lock EXCEPT ![Top(c).p] = c]
    /\ UNCHANGED <<static, conf, cellv, init_lock, cleanup_lock, objs, ncalls,
                   ncleanup, result, nfail, waited>>

\* lines 194-199: read self._args (iterating None raises TypeError) and
\* enter the first proxy among them
AEnterArgs(c) ==
    /\ At(c, "aenter", "args")
    /\ LET a == args[Top(c).p] IN
       IF a = NoneArgs
       THEN Goto(c, "raise")
       ELSE NextDep(c, [Top(c) EXCEPT !.pc = "argloop", !.i = 1, !.deps = a.deps],
                    "activate", "kwargs")
    /\ UNCHANGED <<static, conf, cellv, locks, objs, sched, result, nfail, waited>>

\* lines 194-199: enter the next proxy among the args
AEnterArgLoop(c) ==
    /\ At(c, "aenter", "argloop")
    /\ NextDep(c, Top(c), "activate", "kwargs")
    /\ UNCHANGED <<static, conf, cellv, locks, objs, sched, result, nfail, waited>>

\* lines 201-206: read self._kwargs (None has no values()) and enter the
\* first proxy among them
AEnterKwargs(c) ==
    /\ At(c, "aenter", "kwargs")
    /\ LET k == kwargs[Top(c).p] IN
       IF k = NoneArgs
       THEN Goto(c, "raise")
       ELSE NextDep(c, [Top(c) EXCEPT !.pc = "kwloop", !.i = 1, !.deps = k.deps],
                    "activate", "object")
    /\ UNCHANGED <<static, conf, cellv, locks, objs, sched, result, nfail, waited>>

\* lines 201-206: enter the next proxy among the kwargs
AEnterKwLoop(c) ==
    /\ At(c, "aenter", "kwloop")
    /\ NextDep(c, Top(c), "activate", "object")
    /\ UNCHANGED <<static, conf, cellv, locks, objs, sched, result, nfail, waited>>

\* line 209: self.unmanaged_object
AEnterObject(c) ==
    /\ At(c, "aenter", "object")
    /\ Call(c, [Top(c) EXCEPT !.pc = "hasattr"], NewFrame("init", Top(c).p))
    /\ UNCHANGED <<static, conf, cellv, locks, objs, sched, result, nfail, waited>>

\* lines 209-212: the object has __aenter__: call it and await it; it has
\* none: store entered and leave the async with block
AEnterHasattr(c) ==
    /\ At(c, "aenter", "hasattr")
    /\ LET f == Top(c) IN
       IF HasAEnter(f.p)
       THEN /\ objs' = [objs EXCEPT ![f.rv].started = @ + 1]
            /\ Goto(c, "hook")
            /\ susp' = [susp EXCEPT ![c] = TRUE]
            /\ UNCHANGED <<entered, enter_lock>>
       ELSE /\ StoreEntered(c, f)
            /\ UNCHANGED <<objs, susp>>
    /\ UNCHANGED <<static, conf, obj, inited, init_lock, cleanup_lock, ncalls,
                   ncleanup, result, nfail, waited>>

\* lines 211-212: __aenter__ returns; store entered and leave the async
\* with block
AEnterHook(c) ==
    /\ stack[c] # <<>> /\ Top(c).fn = "aenter" /\ Top(c).pc = "hook"
    /\ susp[c] /\ Alone(c)
    /\ susp' = [susp EXCEPT ![c] = FALSE]
    /\ objs' = [objs EXCEPT ![Top(c).rv].done = @ + 1]
    /\ StoreEntered(c, Top(c))
    /\ UNCHANGED <<static, conf, obj, inited, init_lock, cleanup_lock, ncalls,
                   ncleanup, result, nfail, waited>>

\* line 211: __aenter__ raises
AEnterHookRaise(c) ==
    /\ stack[c] # <<>> /\ Top(c).fn = "aenter" /\ Top(c).pc = "hook"
    /\ susp[c] /\ Alone(c)
    /\ nfail < MaxFail
    /\ nfail' = nfail + 1
    /\ NoteWaiting(c, Top(c).p)
    /\ susp' = [susp EXCEPT ![c] = FALSE]
    /\ Goto(c, "raise")
    /\ UNCHANGED <<static, conf, cellv, locks, objs, ncalls, ncleanup, result>>

\* line 214: the value of self.unmanaged_object is returned
AEnterReturn(c) ==
    /\ At(c, "aenter", "retval")
    /\ Return(c, Top(c).rv)
    /\ UNCHANGED <<static, conf, cellv, locks, objs, sched, nfail, waited>>

(***************************************************************************)
(* BaseLazyProxy.__call__, lines 67-75. The frame holds the new args in    *)
(* deps, the new kwargs in deps2 and the invocation's id in aid.           *)
(***************************************************************************)
\* __call__ without the check of line 68, as InitLazyProxy.__call__ of
\* standard.py, lines 44-47, is written.
CallCheckAlways(c) ==
    /\ At(c, "call", "check")
    /\ Goto(c, "setargs")
    /\ UNCHANGED <<static, conf, cellv, locks, objs, sched, result, nfail, waited>>

\* lines 68-70: already init'ed: warn and return self
CallCheck(c) ==
    /\ At(c, "call", "check")
    /\ IF IsInited(Top(c).p, c)
       THEN /\ ignored' = ignored \cup {Top(c).aid}
            /\ Return(c, 0)
       ELSE /\ Goto(c, "setargs")
            /\ UNCHANGED <<ignored, result>>
    /\ UNCHANGED <<static, args, kwargs, nconf, cellv, locks, objs, sched, nfail, waited>>

\* line 72: self._args = args
CallSetArgs(c) ==
    /\ At(c, "call", "setargs")
    /\ args' = [args EXCEPT ![Top(c).p] = [id |-> Top(c).aid, deps |-> Top(c).deps]]
    /\ Goto(c, "setkwargs")
    /\ UNCHANGED <<static, kwargs, nconf, ignored, cellv, locks, objs, sched,
                   result, nfail, waited>>

\* lines 73-75: self._kwargs = kwargs; return self
CallSetKwargs(c) ==
    /\ At(c, "call", "setkwargs")
    /\ kwargs' = [kwargs EXCEPT ![Top(c).p] = [id |-> Top(c).aid, deps |-> Top(c).deps2]]
    /\ Return(c, 0)
    /\ UNCHANGED <<static, args, nconf, ignored, cellv, locks, objs, sched, nfail, waited>>

(***************************************************************************)
(* BaseLazyProxy.cleanup_sync, lines 126-138. The frame's i is the         *)
(* position of the for loop in the registry.                               *)
(***************************************************************************)
\* line 131: acquire cls._cleanup_lock
CleanupSyncLock(c) ==
    /\ At(c, "cleanup_sync", "check")
    /\ cleanup_lock = 0
    /\ cleanup_lock' = c
    /\ With(c, [Top(c) EXCEPT !.pc = "loop", !.i = 1, !.held = TRUE])
    /\ UNCHANGED <<static, conf, cellv, init_lock, enter_lock, objs, sched,
                   result, nfail, waited>>

\* lines 133-138: what cleanup_sync does with the proxy p: call __exit__
\* of its object when the proxy is inited and entered in the caller's
\* storage and the object has no __aexit__ but an __exit__
SyncExits(p, c) ==
    IsInited(p, c) /\ IsEntered(p, c) /\ ~HasAExit(p) /\ HasExit(p)

\* lines 132-138: the next proxy of the registry, or the end of the loop
\* and of the with block
CleanupSyncLoop(c) ==
    /\ At(c, "cleanup_sync", "loop")
    /\ LET f == Top(c) IN
       IF f.i <= Len(registry)
       THEN /\ objs' = IF SyncExits(registry[f.i], c)
                       THEN [objs EXCEPT ![GetObj(registry[f.i], c)].exits = @ + 1]
                       ELSE objs
            /\ With(c, [f EXCEPT !.i = f.i + 1])
            /\ UNCHANGED <<cleanup_lock, result>>
       ELSE /\ cleanup_lock' = 0
            /\ Return(c, 0)
            /\ UNCHANGED objs
    /\ UNCHANGED <<static, conf, cellv, init_lock, enter_lock, sched, nfail, waited>>

\* line 138: __exit__ of the next proxy's object raises
CleanupSyncExitRaise(c) ==
    /\ At(c, "cleanup_sync", "loop")
    /\ Top(c).i <= Len(registry)
    /\ SyncExits(registry[Top(c).i], c)
    /\ nfail < MaxFail
    /\ nfail' = nfail + 1
    /\ objs' = [objs EXCEPT ![GetObj(registry[Top(c).i], c)].exits = @ + 1]
    /\ With(c, [Top(c) EXCEPT !.i = @ + 1, !.pc = "raise"])
    /\ UNCHANGED <<static, conf, cellv, locks, sched, result, waited>>

(***************************************************************************)
(* BaseLazyProxy.cleanup, lines 140-154, a coroutine.                      *)
(***************************************************************************)
\* line 146: acquire cls._cleanup_lock, a threading.Lock: the thread blocks
CleanupLock(c) ==
    /\ At(c, "cleanup", "check")
    /\ cleanup_lock = 0
    /\ cleanup_lock' = c
    /\ With(c, [Top(c) EXCEPT !.pc = "loop", !.i = 1, !.held = TRUE])
    /\ UNCHANGED <<static, conf, cellv, init_lock, enter_lock, objs, sched,
                   result, nfail, waited>>

\* lines 148-154: the hook cleanup calls on the object of the proxy p
AsyncExits(p, c) ==
    IF ~(IsInited(p, c) /\ IsEntered(p, c)) THEN "none"
    ELSE IF HasAExit(p) THEN "aexit"
    ELSE IF HasExit(p) THEN "exit"
    ELSE "none"

\* lines 147-154: the next proxy of the registry (awaiting its __aexit__
\* suspends the coroutine), or the end of the loop and of the with block
CleanupLoop(c) ==
    /\ At(c, "cleanup", "loop")
    /\ LET f == Top(c) IN
       IF f.i <= Len(registry)
       THEN LET h == AsyncExits(registry[f.i], c) IN
            /\ objs' = IF h # "none"
                       THEN [objs EXCEPT ![GetObj(registry[f.i], c)].exits = @ + 1]
                       ELSE objs
            /\ With(c, [f EXCEPT !.i = f.i + 1,
                                 !.pc = IF h = "aexit" THEN "exit" ELSE "loop"])
            /\ susp' = [susp EXCEPT ![c] = (h = "aexit")]
            /\ UNCHANGED <<cleanup_lock, result>>
       ELSE /\ cleanup_lock' = 0
            /\ Return(c, 0)
            /\ UNCHANGED <<objs, susp>>
    /\ UNCHANGED <<static, conf, cellv, init_lock, enter_lock, ncalls, ncleanup,
                   nfail, waited>>

\* line 151: __aexit__ returns
CleanupExit(c) ==
    /\ stack[c] # <<>> /\ Top(c).fn = "cleanup" /\ Top(c).pc = "exit"
    /\ susp[c] /\ Alone(c)
    /\ susp' = [susp EXCEPT ![c] = FALSE]
    /\ Goto(c, "loop")
    /\ UNCHANGED <<static, conf, cellv, locks, objs, ncalls, ncleanup, result,
                   nfail, waited>>

\* line 154: __exit__ of the next proxy's object raises
CleanupLoopRaise(c) ==
    /\ At(c, "cleanup", "loop")
    /\ Top(c).i <= Len(registry)
    /\ AsyncExits(registry[Top(c).i], c) = "exit"
    /\ nfail < MaxFail
    /\ nfail' = nfail + 1
    /\ objs' = [objs EXCEPT ![GetObj(registry[Top(c).i], c)].exits = @ + 1]
    /\ With(c, [Top(c) EXCEPT !.i = @ + 1, !.pc = "raise"])
    /\ UNCHANGED <<static, conf, cellv, locks, sched, result, waited>>

\* line 151: the awaited __aexit__ raises
CleanupExitRaise(c) ==
    /\ stack[c] # <<>> /\ Top(c).fn = "cleanup" /\ Top(c).pc = "exit"
    /\ susp[c] /\ Alone(c)
    /\ nfail < MaxFail
    /\ nfail' = nfail + 1
    /\ susp' = [susp EXCEPT ![c] = FALSE]
    /\ Goto(c, "raise")
    /\ UNCHANGED <<static, conf, cellv, locks, objs, ncalls, ncleanup, result,
                   waited>>

(***************************************************************************)
(* The top-level calls. An element of ops names a call (op), the proxy it  *)
(* is made on (p), the callers that make it (by) and, for __call__, the    *)
(* proxies among its args (a) and kwargs (k).                              *)
(***************************************************************************)
Op(op, p, by) == [op |-> op, p |-> p, by |-> by, a |-> <<>>, k |-> <<>>]
Configure(p, by, a, k) == [op |-> "call", p |-> p, by |-> by, a |-> a, k |-> k]

\* The instances whose proxy is entered in some storage.
Activated ==
    {obj[e[1]][e[2]] : e \in {q \in Proxies \X Cells : entered[q[1]][q[2]]}}

\* The caller has a reference to the proxy p: its constructor has returned.
Created(p) ==
    /\ \E i \in DOMAIN registry : registry[i] = p
    /\ \A d \in Callers :
          IF stack[d] = <<>> THEN TRUE
          ELSE stack[d][1].fn # "create" \/ stack[d][1].p # p

Idle(c, o) ==
    /\ stack[c] = <<>> /\ Alone(c) /\ ncalls < MaxCalls /\ c \in o.by
    /\ IF o.op \in {"cleanup_sync", "cleanup", "create"} THEN TRUE
       ELSE Created(o.p)

Start(c, f) ==
    /\ stack' = [stack EXCEPT ![c] = <<f>>]
    /\ ncalls' = ncalls + 1
    /\ waited' = [waited EXCEPT ![c] = 0]

\* proxy.unmanaged_object, lines 121-124
StartResolve(c, o) ==
    /\ Idle(c, o) /\ o.op = "init"
    /\ Start(c, NewFrame("init", o.p))
    /\ UNCHANGED <<static, conf, cellv, locks, objs, susp, ncleanup, result, nfail>>

\* proxy.__ and `with proxy`, lines 271-276
StartEnter(c, o) ==
    /\ Idle(c, o) /\ o.op = "enter"
    /\ Start(c, NewFrame("enter", o.p))
    /\ UNCHANGED <<static, conf, cellv, locks, objs, susp, ncleanup, result, nfail>>

\* proxy(*args, **kwargs), line 67
StartCall(c, o) ==
    /\ Idle(c, o) /\ o.op = "call"
    /\ nconf < Len(prog) + MaxConf
    /\ nconf' = nconf + 1
    /\ Start(c, [NewFrame("call", o.p) EXCEPT !.deps = o.a, !.deps2 = o.k,
                                              !.aid = nconf + 1])
    /\ UNCHANGED <<static, args, kwargs, ignored, cellv, locks, objs, susp,
                   ncleanup, result, nfail>>

\* BaseLazyProxy.cleanup_sync(exc_type, exc_val, exc_tb), line 127
StartCleanupSync(c, o) ==
    /\ Idle(c, o) /\ o.op = "cleanup_sync"
    /\ ncleanup < MaxCleanup
    /\ ncleanup' = ncleanup + 1
    /\ Start(c, [NewFrame("cleanup_sync", 0) EXCEPT !.got = Activated])
    /\ UNCHANGED <<static, conf, cellv, locks, objs, susp, result, nfail>>

\* `await proxy` and `async with proxy`, lines 216-220
StartAEnter(c, o) ==
    /\ Idle(c, o) /\ o.op = "aenter"
    /\ Start(c, NewFrame("aenter", o.p))
    /\ UNCHANGED <<static, conf, cellv, locks, objs, susp, ncleanup, result, nfail>>

\* await BaseLazyProxy.cleanup(exc_type, exc_val, exc_tb), line 141
StartCleanup(c, o) ==
    /\ Idle(c, o) /\ o.op = "cleanup"
    /\ ncleanup < MaxCleanup
    /\ ncleanup' = ncleanup + 1
    /\ Start(c, [NewFrame("cleanup", 0) EXCEPT !.got = Activated])
    /\ UNCHANGED <<static, conf, cellv, locks, objs, susp, result, nfail>>

(***************************************************************************)
(* BaseLazyProxy.__init__, lines 29-65, called by a thread at run time,    *)
(* with the __call__ of the declaration, lines 67-75.                      *)
(***************************************************************************)
\* __init__ as it would be if a proxy were registered when it is first
\* entered and not when it is created.
StartCreateUnregistered(c, o) ==
    /\ Idle(c, o) /\ o.op = "create"
    /\ \A i \in DOMAIN registry : registry[i] # o.p
    /\ Start(c, NewFrame("create", o.p))
    /\ UNCHANGED <<static, conf, cellv, locks, objs, susp, ncleanup, result, nfail>>

\* lines 37-49: the locks, the scope and the storages of the new proxy,
\* then BaseLazyProxy._proxy_registry.append(self)
StartCreate(c, o) ==
    /\ Idle(c, o) /\ o.op = "create"
    /\ \A i \in DOMAIN registry : registry[i] # o.p
    /\ registry' = Append(registry, o.p)
    /\ Start(c, NewFrame("create", o.p))
    /\ UNCHANGED <<prog, ops, threadOf, conf, cellv, locks, objs, susp, ncleanup,
                   result, nfail>>

\* lines 51-65: store the object (or None), inited and entered in the
\* creating thread's storage and set _args and _kwargs; then the __call__
\* of the declaration, lines 68-75, sets the args of a type-bound proxy
CreateStore(c) ==
    /\ At(c, "create", "check")
    /\ LET p == Top(c).p
           x == CorrectStorage(p, c)
           inst == prog[p].bound = "inst"
       IN /\ obj' = [obj EXCEPT ![p][x] = IF inst THEN BoundObjOf(prog, p) ELSE 0]
          /\ inited' = [inited EXCEPT ![p][x] = inst]
          /\ entered' = [entered EXCEPT ![p][x] = FALSE]
          /\ args' = [args EXCEPT ![p] =
                IF inst THEN NoneArgs ELSE [id |-> p, deps |-> prog[p].a]]
          /\ kwargs' = [kwargs EXCEPT ![p] =
                IF inst THEN NoneArgs ELSE [id |-> p, deps |-> prog[p].k]]
    /\ Return(c, 0)
    /\ UNCHANGED <<static, nconf, ignored, locks, objs, sched, nfail, waited>>

(***************************************************************************)
(* Programs.                                                               *)
(***************************************************************************)
\* NThreads threads; NThreads coroutines of the main thread's event loop;
\* two threads.
Threads == [c \in 1..NThreads |-> c]
Loop == [c \in 1..NThreads |-> MainThread]
All == 1..NThreads
TwoThreads == <<1, 2>>

\* One global proxy of a context manager, resolved and entered by every thread.
PGlobal ==
    [d |-> <<Decl("std", "type", "false", "sync", <<>>, <<>>)>>,
     th |-> Threads,
     ops |-> {Op("init", 1, All), Op("enter", 1, All)}]

\* A proxy with the default scope of a type and a global one, entered by two
\* threads, with cleanup_sync.
PScopes ==
    [d |-> <<Decl("std", "type", "none", "sync", <<>>, <<>>),
             Decl("std", "type", "false", "sync", <<>>, <<>>)>>,
     th |-> TwoThreads,
     ops |-> {Op("enter", 1, {1, 2}), Op("enter", 2, {1, 2}),
              Op("cleanup_sync", 0, {1, 2})}]

\* A sync proxy whose args hold a sync proxy and whose kwargs hold an aio
\* proxy and the sync proxy again, entered by two threads in either order.
PDeps ==
    [d |-> <<Decl("std", "type", "false", "sync", <<2>>, <<3, 2>>),
             Decl("std", "type", "false", "sync", <<>>, <<>>),
             Decl("aio", "type", "false", "async", <<>>, <<>>)>>,
     th |-> TwoThreads,
     ops |-> {Op("enter", 1, {1, 2}), Op("enter", 2, {1, 2})}]

\* Proxies of built objects, one with the default scope and one declared
\* thread_local=True.
PInst ==
    [d |-> <<Decl("std", "inst", "none", "sync", <<>>, <<>>),
             Decl("std", "inst", "true", "sync", <<>>, <<>>)>>,
     th |-> TwoThreads,
     ops |-> {Op("enter", 1, {1, 2}), Op("init", 1, {1, 2}),
              Op("init", 2, {1, 2})}]

\* __call__ at run time on a global proxy and on a thread-local one.
PConf ==
    [d |-> <<Decl("std", "type", "false", "none", <<>>, <<>>),
             Decl("std", "type", "none", "none", <<>>, <<>>)>>,
     th |-> TwoThreads,
     ops |-> {Configure(1, {1, 2}, <<>>, <<>>), Configure(2, {1, 2}, <<>>, <<>>),
              Op("init", 1, {1, 2}), Op("init", 2, {1, 2})}]

\* One global aio proxy of an async context manager, awaited by every
\* coroutine of the loop.
PAio ==
    [d |-> <<Decl("aio", "type", "false", "async", <<>>, <<>>)>>,
     th |-> Loop,
     ops |-> {Op("aenter", 1, All)}]

\* An aio proxy whose args hold an aio proxy and whose kwargs hold a sync
\* proxy, awaited by two coroutines in either order.
PAioDeps ==
    [d |-> <<Decl("aio", "type", "false", "async", <<2>>, <<3>>),
             Decl("aio", "type", "false", "async", <<>>, <<>>),
             Decl("std", "type", "false", "sync", <<>>, <<>>)>>,
     th |-> <<1, 1>>,
     ops |-> {Op("aenter", 1, {1, 2}), Op("aenter", 2, {1, 2})}]

\* An aio proxy of a built object and one of a type, awaited and cleaned up
\* by two coroutines.
PAioCleanup ==
    [d |-> <<Decl("aio", "inst", "none", "async", <<>>, <<>>),
             Decl("aio", "type", "false", "async", <<>>, <<>>)>>,
     th |-> <<1, 1>>,
     ops |-> {Op("aenter", 1, {1, 2}), Op("aenter", 2, {1, 2}),
              Op("cleanup", 0, {1, 2})}]

\* Sync proxies of a type with only __aenter__/__aexit__ and of a type with
\* the hooks of both kinds, entered as arguments of a third, then
\* cleanup_sync.
PMismatch ==
    [d |-> <<Decl("std", "type", "false", "async", <<>>, <<>>),
             Decl("std", "type", "false", "both", <<>>, <<>>),
             Decl("std", "type", "false", "sync", <<1, 2>>, <<>>)>>,
     th |-> TwoThreads,
     ops |-> {Op("enter", 3, {1}), Op("cleanup_sync", 0, {1, 2})}]

\* An aio proxy of a type with only __enter__/__exit__, awaited and cleaned
\* up by the coroutines of one loop.
PAioSync ==
    [d |-> <<Decl("aio", "type", "false", "sync", <<>>, <<>>)>>,
     th |-> <<1, 1>>,
     ops |-> {Op("aenter", 1, {1}), Op("cleanup", 0, {1, 2})}]

\* One proxy declared at module level and two that two threads create at
\* run time, with enter and cleanup_sync.
PCreate ==
    [d |-> <<Decl("std", "type", "false", "sync", <<>>, <<>>),
             Decl("std", "type", "false", "sync", <<>>, <<>>),
             Decl("std", "type", "none", "sync", <<>>, <<>>)>>,
     th |-> TwoThreads,
     ops |-> {Op("create", 2, {1}), Op("create", 3, {2}),
              Op("enter", 2, {1, 2}), Op("cleanup_sync", 0, {1, 2})}]

\* A diamond of global sync proxies: 1 takes 2 and 3, which both take 4.
\* Both threads enter the top and resolve the bottom; one of them also
\* enters a side.
PDiamond ==
    [d |-> <<Decl("std", "type", "false", "sync", <<2, 3>>, <<>>),
             Decl("std", "type", "false", "sync", <<4>>, <<>>),
             Decl("std", "type", "false", "sync", <<>>, <<4>>),
             Decl("std", "type", "false", "sync", <<>>, <<>>)>>,
     th |-> TwoThreads,
     ops |-> {Op("enter", 1, {1, 2}), Op("enter", 3, {2}),
              Op("init", 4, {1, 2})}]

Programs ==
    {PCreate, PGlobal, PScopes, PDeps, PInst, PConf, PAio, PAioDeps, PAioCleanup,
     PMismatch, PAioSync}

Init == \E pr \in Programs : InitOf(pr.d, pr.th, pr.ops)

Next ==
    \/ \E c \in Callers, o \in ops : StartResolve(c, o)
    \/ \E c \in Callers, o \in ops : StartEnter(c, o)
    \/ \E c \in Callers, o \in ops : StartAEnter(c, o)
    \/ \E c \in Callers, o \in ops : StartCall(c, o)
    \/ \E c \in Callers, o \in ops : StartCleanupSync(c, o)
    \/ \E c \in Callers, o \in ops : StartCleanup(c, o)
    \/ \E c \in Callers, o \in ops : StartCreate(c, o)
    \/ \E c \in Callers : CreateStore(c)
    \/ \E c \in Callers : Unwind(c)
    \/ \E c \in Callers : InitCheck(c)
    \/ \E c \in Callers : InitLock(c)
    \/ \E c \in Callers : InitArgs(c)
    \/ \E c \in Callers : InitArgLoop(c)
    \/ \E c \in Callers : InitKwargs(c)
    \/ \E c \in Callers : InitKwLoop(c)
    \/ \E c \in Callers : InitConstruct(c)
    \/ \E c \in Callers : InitConstructRaise(c)
    \/ \E c \in Callers : EnterCheck(c)
    \/ \E c \in Callers : EnterLock(c)
    \/ \E c \in Callers : EnterArgs(c)
    \/ \E c \in Callers : EnterArgLoop(c)
    \/ \E c \in Callers : EnterKwargs(c)
    \/ \E c \in Callers : EnterKwLoop(c)
    \/ \E c \in Callers : EnterObject(c)
    \/ \E c \in Callers : EnterHasattr(c)
    \/ \E c \in Callers : EnterHook(c)
    \/ \E c \in Callers : EnterHookRaise(c)
    \/ \E c \in Callers : EnterReturn(c)
    \/ \E c \in Callers : AEnterCheck(c)
    \/ \E c \in Callers : AEnterWait(c)
    \/ \E c \in Callers : AEnterLock(c)
    \/ \E c \in Callers : AEnterArgs(c)
    \/ \E c \in Callers : AEnterArgLoop(c)
    \/ \E c \in Callers : AEnterKwargs(c)
    \/ \E c \in Callers : AEnterKwLoop(c)
    \/ \E c \in Callers : AEnterObject(c)
    \/ \E c \in Callers : AEnterHasattr(c)
    \/ \E c \in Callers : AEnterHook(c)
    \/ \E c \in Callers : AEnterHookRaise(c)
    \/ \E c \in Callers : AEnterReturn(c)
    \/ \E c \in Callers : CallCheck(c)
    \/ \E c \in Callers : CallSetArgs(c)
    \/ \E c \in Callers : CallSetKwargs(c)
    \/ \E c \in Callers : CleanupSyncLock(c)
    \/ \E c \in Callers : CleanupSyncLoop(c)
    \/ \E c \in Callers : CleanupSyncExitRaise(c)
    \/ \E c \in Callers : CleanupLock(c)
    \/ \E c \in Callers : CleanupLoop(c)
    \/ \E c \in Callers : CleanupLoopRaise(c)
    \/ \E c \in Callers : CleanupExit(c)
    \/ \E c \in Callers : CleanupExitRaise(c)

Spec == Init /\ [][Next]_vars

(***************************************************************************)
(* Scheduling. A thread that can take a step of the call it is in takes    *)
(* one: the operating system runs every runnable thread, the event loop    *)
(* every ready coroutine, and a constructor or a hook that was called      *)
(* returns or raises. A caller need not start another call.                *)
(***************************************************************************)
ThreadStep(c) ==
    /\ c \in Callers
    /\ \/ Unwind(c)
       \/ InitCheck(c) \/ InitLock(c) \/ InitArgs(c) \/ InitArgLoop(c)
       \/ InitKwargs(c) \/ InitKwLoop(c) \/ InitConstruct(c)
       \/ InitConstructRaise(c)
       \/ EnterCheck(c) \/ EnterLock(c) \/ EnterArgs(c) \/ EnterArgLoop(c)
       \/ EnterKwargs(c) \/ EnterKwLoop(c) \/ EnterObject(c)
       \/ EnterHasattr(c) \/ EnterHook(c) \/ EnterHookRaise(c)
       \/ EnterReturn(c)
       \/ AEnterCheck(c) \/ AEnterWait(c) \/ AEnterLock(c) \/ AEnterArgs(c)
       \/ AEnterArgLoop(c) \/ AEnterKwargs(c) \/ AEnterKwLoop(c)
       \/ AEnterObject(c) \/ AEnterHasattr(c) \/ AEnterHook(c)
       \/ AEnterHookRaise(c) \/ AEnterReturn(c)
       \/ CallCheck(c) \/ CallSetArgs(c) \/ CallSetKwargs(c)
       \/ CleanupSyncLock(c) \/ CleanupSyncLoop(c) \/ CleanupSyncExitRaise(c)
       \/ CleanupLock(c) \/ CleanupLoop(c) \/ CleanupLoopRaise(c)
       \/ CleanupExit(c) \/ CleanupExitRaise(c)
       \/ CreateStore(c)

Fairness == \A c \in 1..NThreads : WF_vars(ThreadStep(c))

\* The diamond alone, with the calls of the sync proxies and fair threads.
InitDiamond == InitOf(PDiamond.d, PDiamond.th, PDiamond.ops)

NextDiamond ==
    \/ \E c \in Callers, o \in ops : StartResolve(c, o)
    \/ \E c \in Callers, o \in ops : StartEnter(c, o)
    \/ \E c \in Callers : Unwind(c)
    \/ \E c \in Callers : InitCheck(c)
    \/ \E c \in Callers : InitLock(c)
    \/ \E c \in Callers : InitArgs(c)
    \/ \E c \in Callers : InitArgLoop(c)
    \/ \E c \in Callers : InitKwargs(c)
    \/ \E c \in Callers : InitKwLoop(c)
    \/ \E c \in Callers : InitConstruct(c)
    \/ \E c \in Callers : InitConstructRaise(c)
    \/ \E c \in Callers : EnterCheck(c)
    \/ \E c \in Callers : EnterLock(c)
    \/ \E c \in Callers : EnterArgs(c)
    \/ \E c \in Callers : EnterArgLoop(c)
    \/ \E c \in Callers : EnterKwargs(c)
    \/ \E c \in Callers : EnterKwLoop(c)
    \/ \E c \in Callers : EnterObject(c)
    \/ \E c \in Callers : EnterHasattr(c)
    \/ \E c \in Callers : EnterHook(c)
    \/ \E c \in Callers : EnterHookRaise(c)
    \/ \E c \in Callers : EnterReturn(c)

SpecDiamond == InitDiamond /\ [][NextDiamond]_vars /\ Fairness

(***************************************************************************)
(* Properties.                                                             *)
(***************************************************************************)
ObjsOf(p) == {x \in DOMAIN objs : objs[x].of = p}

\* The caller's last top-level call was one of fns on p and returned.
Returned(c, fns, p) ==
    result[c].op \in fns /\ result[c].p = p /\ ~result[c].err

\* The activation hook the proxy's kind calls exists on the proxied type.
HookOf(p) == IF prog[p].kind = "std" THEN HasEnter(p) ELSE HasAEnter(p)

GlobalType(p) == prog[p].bound = "type" /\ ~ThreadLocal(prog[p])

\* C1: a type-bound proxy with global storage is constructed at most once,
\* however many threads resolve it at once, and every unmanaged_object
\* that returns gives that one instance.
C1_OneConstruction ==
    \A p \in Proxies : GlobalType(p) =>
        /\ Cardinality(ObjsOf(p)) <= 1
        /\ \A c \in Callers : Returned(c, {"init"}, p) =>
              result[c].val # 0 /\ ObjsOf(p) = {result[c].val}

\* Two threads resolved the same global proxy, the second one having passed
\* the unlocked check before the first one stored the object.
C1_Witness ==
    \E p \in Proxies, c, d \in Callers :
        /\ c # d /\ GlobalType(p)
        /\ Returned(c, {"init"}, p) /\ result[c].val # 0
        /\ stack[d] # <<>> /\ Top(d).fn = "init" /\ Top(d).p = p
        /\ Top(d).pc = "lock" /\ Len(stack[d]) = 1

\* C2: the activation hook of an instance returns at most once, it is
\* invoked again only after an invocation raised, and an activation that
\* returns gives an instance whose hook has returned.
C2_ActivateOnce ==
    /\ \A x \in DOMAIN objs :
          objs[x].done <= 1 /\ objs[x].started <= 1 + nfail
    /\ \A c \in Callers :
          result[c].op \in {"enter", "aenter"} /\ ~result[c].err =>
              /\ result[c].val # 0
              /\ HookOf(result[c].p) => objs[result[c].val].done = 1

\* Two callers entered the same proxy; its hook ran once.
C2_Witness ==
    \E p \in Proxies, c, d \in Callers :
        /\ c # d /\ HookOf(p)
        /\ Returned(c, {"enter", "aenter"}, p)
        /\ Returned(d, {"enter", "aenter"}, p)
        /\ result[c].val = result[d].val
        /\ objs[result[c].val].started = 1
        /\ objs[result[c].val].done = 1

\* The proxies among the args and kwargs of p.
DepsOf(p) ==
    {args[p].deps[i] : i \in DOMAIN args[p].deps}
        \cup {kwargs[p].deps[i] : i \in DOMAIN kwargs[p].deps}

\* C3: while the activation hook of a proxy runs, every proxy among its
\* args and kwargs, of either kind, is entered in the caller's storage.
C3_DependencyFirst ==
    \A c \in Callers :
        stack[c] # <<>> /\ Top(c).fn \in {"enter", "aenter"} /\ Top(c).pc = "hook" =>
            \A q \in DepsOf(Top(c).p) : IsEntered(q, c)

\* C4: with at most two cleanups called, no instance has its deactivation
\* hook invoked more than once.
C4_CleanupTwice ==
    ncleanup <= 2 => \A x \in DOMAIN objs : objs[x].exits <= 1

\* The deactivation hook a cleanup of kind fn calls exists on the type of p.
ExitHookFor(fn, p) ==
    IF fn = "cleanup_sync" THEN HasExit(p) /\ ~HasAExit(p)
    ELSE HasAExit(p) \/ HasExit(p)

\* C5: when a cleanup has walked the registry, every instance that was
\* activated, in whatever thread, when the cleanup was called has had its
\* deactivation hook invoked.
C5_CleanupAll ==
    \A c \in Callers :
        /\ stack[c] # <<>>
        /\ Top(c).fn \in {"cleanup_sync", "cleanup"}
        /\ Top(c).pc = "loop" /\ Top(c).i > Len(registry)
        => \A y \in Top(c).got :
              ExitHookFor(Top(c).fn, objs[y].of) => objs[y].exits >= 1

\* The top-level activation of caller c ends with an exception in this step.
ActivationFails(c) ==
    /\ stack[c] # <<>> /\ stack'[c] = <<>>
    /\ result'[c].err /\ result'[c].op \in {"enter", "aenter"}

\* C6: entered is only ever set after the hook returned; an activation
\* that ends with an exception ends in its own caller, with entered unset
\* in the caller's storage and the proxy's lock free; a raising frame only
\* ever unwinds; and once the hook of an instance has returned it is never
\* invoked again.
C6_FailedActivation ==
    /\ [](\A p \in Proxies, x \in Cells :
            entered[p][x] =>
                obj[p][x] # 0 /\ (HookOf(p) => objs[obj[p][x]].done >= 1))
    /\ [][\A c \in Callers : ActivationFails(c) =>
            /\ ~entered'[result'[c].p][CorrectStorage(result'[c].p, c)]
            /\ enter_lock'[result'[c].p] = 0
            /\ \A d \in Callers \ {c} : result'[d] = result[d]]_vars
    /\ [][\A c \in Callers :
            stack[c] # <<>> /\ Top(c).pc = "raise" /\ stack'[c] # stack[c] =>
                /\ Len(stack'[c]) = Len(stack[c]) - 1
                /\ IF stack'[c] = <<>> THEN result'[c].err
                   ELSE stack'[c][Len(stack'[c])].pc = "raise"]_vars
    /\ [][\A x \in DOMAIN objs :
            objs[x].done >= 1 => objs'[x].started = objs[x].started]_vars

\* The hook of an instance raised, the next activation invoked it again and
\* it returned, and a third activation returned the instance.
C6_Witness ==
    \E c \in Callers :
        /\ result[c].op \in {"enter", "aenter"} /\ ~result[c].err
        /\ objs[result[c].val].started = 2
        /\ objs[result[c].val].done = 1
        /\ ncalls = 3
        /\ \A d \in Callers : stack[d] = <<>>

\* C7: a thread-local proxy gives callers of different threads different
\* instances and a caller the instance of its own thread, built once per
\* thread; a global proxy gives every caller the one global instance.
C7_Scopes ==
    \A p \in Proxies :
        /\ \A c \in Callers : Returned(c, {"init", "enter", "aenter"}, p) =>
              result[c].val = obj[p][CorrectStorage(p, c)] /\ result[c].val # 0
        /\ \A c, d \in Callers :
              /\ Returned(c, {"init", "enter", "aenter"}, p)
              /\ Returned(d, {"init", "enter", "aenter"}, p)
              => IF prog[p].tl = "true" \/ (prog[p].tl = "none" /\ prog[p].bound = "type")
                 THEN threadOf[c] # threadOf[d] => result[c].val # result[d].val
                 ELSE result[c].val = result[d].val
        /\ \A x \in ObjsOf(p) : \E y \in Cells : obj[p][y] = x
        /\ \A y, z \in Cells : y # z /\ obj[p][y] # 0 => obj[p][y] # obj[p][z]

\* Two threads resolved the same thread-local proxy and got two instances.
C7_Witness ==
    \E p \in Proxies, c, d \in Callers :
        /\ ThreadLocal(prog[p]) /\ threadOf[c] # threadOf[d]
        /\ Returned(c, {"init", "enter"}, p)
        /\ Returned(d, {"init", "enter"}, p)
        /\ result[c].val # result[d].val

\* C8: activating a proxy of a built object, declared without thread_local,
\* returns that object with its hook run once.
C8_InstanceActivates ==
    \A c \in Callers :
        /\ result[c].op \in {"enter", "aenter"}
        /\ prog[result[c].p].bound = "inst" /\ prog[result[c].p].tl = "none"
        => /\ ~result[c].err
           /\ result[c].val = BoundObjOf(prog, result[c].p)
           /\ HookOf(result[c].p) => objs[result[c].val].done = 1

\* C9: resolving a proxy of a built object, however it was declared, gives
\* every thread that object.
C9_InstanceGlobal ==
    \A c \in Callers :
        result[c].op = "init" /\ prog[result[c].p].bound = "inst" =>
            ~result[c].err /\ result[c].val = BoundObjOf(prog, result[c].p)

\* __call__ by caller c, standing at its check, takes its step and is a
\* no-op: it returns without an exception, leaves args, kwargs and the
\* stored objects alone and its arguments are ignored.
CallIsNoOp(c) ==
    /\ stack'[c] = <<>>
    /\ ~result'[c].err
    /\ args' = args /\ kwargs' = kwargs /\ obj' = obj /\ objs' = objs
    /\ Top(c).aid \in ignored'

CallChecks(c) ==
    stack[c] # <<>> /\ Top(c).fn = "call" /\ Top(c).pc = "check"
        /\ stack'[c] # stack[c]

ResolvedSomewhere(p) == \E x \in Cells : inited[p][x]

NoObjectFromIgnored ==
    \A x \in DOMAIN objs : objs[x].a \notin ignored /\ objs[x].k \notin ignored

InInitBlock(c) == stack[c] # <<>> /\ Top(c).fn = "init" /\ Top(c).held

\* The step changes nothing of the callers other than c.
OthersUntouched(c) ==
    \A d \in Callers \ {c} : stack'[d] = stack[d] /\ result'[d] = result[d]

\* C11: a constructor that raises stores nothing; the exception leaves the
\* with block, which frees the init lock, with the proxy not inited and
\* without an object in the caller's storage, and reaches only the caller
\* whose call constructed; the init lock is never left held by a caller
\* that is not inside the with block, so the next resolve constructs again.
C11_ConstructorRaises ==
    /\ [](\A c \in Callers : InInitBlock(c) =>
            /\ init_lock[Top(c).p] = c
            /\ ~IsInited(Top(c).p, c)
            /\ GetObj(Top(c).p, c) = 0)
    /\ [](\A p \in Proxies : init_lock[p] # 0 =>
            \E i \in DOMAIN stack[init_lock[p]] :
                LET f == stack[init_lock[p]][i]
                IN f.fn = "init" /\ f.p = p /\ f.held)
    /\ [][\A c \in Callers :
            InInitBlock(c) /\ Top(c).pc = "construct" /\ stack'[c] # stack[c]
                /\ Len(stack'[c]) = Len(stack[c])
            => /\ Top(c)' .pc = "raise"
               /\ cellv' = cellv /\ objs' = objs /\ locks' = locks
               /\ OthersUntouched(c)]_vars
    /\ [][\A c \in Callers :
            InInitBlock(c) /\ Top(c).pc = "raise" /\ stack'[c] # stack[c]
            => /\ init_lock'[Top(c).p] = 0
               /\ ~inited'[Top(c).p][CorrectStorage(Top(c).p, c)]
               /\ obj'[Top(c).p][CorrectStorage(Top(c).p, c)] = 0
               /\ objs' = objs
               /\ OthersUntouched(c)
               /\ IF Len(stack[c]) = 1
                  THEN stack'[c] = <<>> /\ result'[c].err
                  ELSE stack'[c][Len(stack'[c])].pc = "raise"]_vars

\* The constructor of a global type-bound proxy without proxies among its
\* arguments raised in one caller's resolve, and a resolve after it
\* constructed the instance.
C11_Witness ==
    \E p \in Proxies, c, d \in Callers :
        /\ c # d /\ GlobalType(p) /\ DepsOf(p) = {}
        /\ result[c].op = "init" /\ result[c].p = p /\ result[c].err
        /\ Returned(d, {"init"}, p) /\ result[d].val # 0
        /\ ObjsOf(p) = {result[d].val}

\* The activation hook of the proxy of c's top frame raises in this step.
HookRaises(c) ==
    /\ stack[c] # <<>> /\ Top(c).fn \in {"enter", "aenter"} /\ Top(c).pc = "hook"
    /\ Len(stack'[c]) = Len(stack[c])
    /\ stack'[c][Len(stack'[c])].pc = "raise"

\* The top-level call of caller d ends in this step.
CallEnds(d) == stack[d] # <<>> /\ stack'[d] = <<>>

HookDue(c, p) ==
    IF Top(c).fn = "cleanup_sync" THEN SyncExits(p, c)
    ELSE AsyncExits(p, c) # "none"

\* C13: when a deactivation hook has raised during a cleanup, the hooks of
\* the entries that follow in the registry and are activated in the
\* cleaning caller's storage have been invoked all the same.
C13_CleanupContinues ==
    \A c \in Callers :
        /\ stack[c] # <<>>
        /\ Top(c).fn \in {"cleanup_sync", "cleanup"} /\ Top(c).pc = "raise"
        => \A j \in Top(c).i .. Len(registry) :
              HookDue(c, registry[j]) =>
                  objs[GetObj(registry[j], c)].exits >= 1

\* cleanup_sync in caller c's top frame takes a step of its loop at the
\* proxy p, which is inited and entered in c's storage.
SyncCleanupAt(c, p) ==
    /\ stack[c] # <<>> /\ Top(c).fn = "cleanup_sync" /\ Top(c).pc = "loop"
    /\ Top(c).i <= Len(registry) /\ registry[Top(c).i] = p
    /\ IsInited(p, c) /\ IsEntered(p, c)
    /\ stack'[c] # stack[c]

\* C14: cleanup_sync at an activated entry whose object has __aexit__ and
\* no __exit__ invokes no hook, raises nothing and goes on to the next
\* entry; at an activated entry whose object has __exit__ it calls __exit__.
C14_SyncCleanupMismatch ==
    [][\A c \in Callers, p \in Proxies : SyncCleanupAt(c, p) =>
          /\ HasAExit(p) /\ ~HasExit(p) =>
                /\ objs' = objs
                /\ stack'[c] = [stack[c] EXCEPT ![Len(stack[c])].i = @ + 1]
          /\ HasExit(p) =>
                objs'[GetObj(p, c)].exits = objs[GetObj(p, c)].exits + 1]_vars

\* The proxy p exists: it was created when the module was imported, or its
\* __init__ is running, or it has stored something.
Exists(p) ==
    \/ p \notin Late(ops)
    \/ args[p] # NoneArgs
    \/ \E x \in Cells : inited[p][x]
    \/ \E d \in Callers :
          \E i \in DOMAIN stack[d] :
              stack[d][i].fn = "create" /\ stack[d][i].p = p

\* C15: every proxy that exists is in the registry exactly once; the
\* registry only ever changes by the append of a proxy whose __init__
\* starts in that step, so that no element is removed or moved.
C15_RegistryAppendOnly ==
    /\ [](\A p \in Proxies : Exists(p) =>
            Cardinality({i \in DOMAIN registry : registry[i] = p}) = 1)
    /\ [](\A i, j \in DOMAIN registry : registry[i] = registry[j] => i = j)
    /\ [][/\ Len(registry') >= Len(registry)
          /\ SubSeq(registry', 1, Len(registry)) = registry]_vars
    /\ [][registry' # registry =>
            \E c \in Callers :
                /\ stack[c] = <<>> /\ stack'[c] # <<>>
                /\ stack'[c][1].fn = "create"
                /\ registry' = Append(registry, stack'[c][1].p)]_vars

\* Two threads created their proxies at the same time, the second thread
\* registering first, and a cleanup has walked the registry since.
C15_Witness ==
    /\ Late(ops) # {}
    /\ Len(registry) = Len(prog)
    /\ registry[Len(registry)] < registry[Len(registry) - 1]
    /\ \E c \in Callers : result[c].op = "cleanup_sync" /\ ~result[c].err
    /\ \A p \in Proxies : Exists(p)

\* A cleanup in caller c's top frame takes a step of its loop at the proxy p.
CleanupAt(c, p) ==
    /\ stack[c] # <<>>
    /\ Top(c).fn \in {"cleanup_sync", "cleanup"} /\ Top(c).pc = "loop"
    /\ Top(c).i <= Len(registry) /\ registry[Top(c).i] = p
    /\ stack'[c] # stack[c]

\* Cleanup does nothing at a proxy that is not entered in its storage.
CleanupSkips ==
    \A c \in Callers, p \in Proxies :
        CleanupAt(c, p) /\ ~(IsInited(p, c) /\ IsEntered(p, c)) =>
            /\ objs' = objs /\ cellv' = cellv /\ conf' = conf
            /\ stack'[c] = [stack[c] EXCEPT ![Len(stack[c])].i = @ + 1]

\* A deactivation hook has only been invoked on instances whose activation
\* hook has returned.
ExitOnlyAfterEnter ==
    \A x \in DOMAIN objs : objs[x].exits >= 1 => objs[x].done >= 1

\* C16: cleanup invokes no hook, constructs nothing and changes no state at
\* an entry that is not activated, and a deactivation hook is only ever
\* invoked on an instance whose activation hook has returned.
C16_CleanupOnlyActivated ==
    [][CleanupSkips]_vars /\ []ExitOnlyAfterEnter

\* Caller c stands at the first check of fn on a proxy for which the check
\* finds the flag set in c's storage.
OnFastPath(c, fns) ==
    /\ stack[c] # <<>> /\ Top(c).fn \in fns /\ Top(c).pc = "check"
    /\ IF Top(c).fn = "init" THEN IsInited(Top(c).p, c)
       ELSE IsEntered(Top(c).p, c)

\* C17: an activation by a caller in whose storage the proxy is entered
\* goes from the check to `return self.unmanaged_object`, which finds the
\* proxy inited and returns the object; none of these steps touches a
\* lock or suspends, and each can be taken whatever locks are held.
C17_FastPath ==
    /\ [](\A p \in Proxies, x \in Cells :
            entered[p][x] => inited[p][x] /\ obj[p][x] # 0)
    /\ [](\A c \in Callers :
            /\ OnFastPath(c, {"enter"}) /\ ~susp[c] => ENABLED EnterCheck(c)
            /\ OnFastPath(c, {"aenter"}) /\ ~susp[c] => ENABLED AEnterCheck(c)
            /\ OnFastPath(c, {"init"}) /\ ~susp[c] => ENABLED InitCheck(c))
    /\ [][\A c \in Callers :
            OnFastPath(c, {"enter", "aenter"}) /\ stack'[c] # stack[c] =>
                /\ locks' = locks /\ susp' = susp /\ cellv' = cellv
                /\ stack'[c] =
                      Append([stack[c] EXCEPT ![Len(stack[c])].pc = "retval"],
                             NewFrame("init", Top(c).p))]_vars
    /\ [][\A c \in Callers :
            OnFastPath(c, {"init"}) /\ stack'[c] # stack[c] =>
                /\ locks' = locks /\ susp' = susp /\ cellv' = cellv
                /\ Len(stack'[c]) = Len(stack[c]) - 1
                /\ IF stack'[c] = <<>>
                   THEN result'[c].val = GetObj(Top(c).p, c) /\ ~result'[c].err
                   ELSE stack'[c][Len(stack'[c])].rv = GetObj(Top(c).p, c)]_vars
    /\ [][\A c \in Callers :
            /\ stack[c] # <<>> /\ Top(c).fn \in {"enter", "aenter"}
            /\ Top(c).pc = "retval" /\ stack'[c] # stack[c]
            => /\ locks' = locks /\ susp' = susp
               /\ Len(stack'[c]) = Len(stack[c]) - 1]_vars

\* A caller that had activated a proxy activates it again and has the
\* object in hand while another caller holds the proxy's enter lock.
C17_Witness ==
    \E c, d \in Callers, p \in Proxies :
        /\ c # d /\ enter_lock[p] = d
        /\ Returned(c, {"enter", "aenter"}, p)
        /\ Len(stack[c]) = 1 /\ Top(c).fn \in {"enter", "aenter"}
        /\ Top(c).p = p /\ Top(c).pc = "retval"
        /\ Top(c).rv = result[c].val /\ Top(c).rv # 0

\* C18: every instance is constructed from the args and the kwargs of one
\* and the same __call__, and while a caller is constructing the instance
\* of a proxy (it holds the init lock) no __call__ changes the proxy's
\* args or kwargs.
C18_ArgsImmutable ==
    /\ [](\A x \in DOMAIN objs : objs[x].a = objs[x].k)
    /\ [][\A p \in Proxies : init_lock[p] # 0 =>
            args'[p] = args[p] /\ kwargs'[p] = kwargs[p]]_vars

Diamond == prog = PDiamond.d

\* The thread c is inside a top-level call.
InCall(c) == IF c \in Callers THEN stack[c] # <<>> ELSE FALSE

\* The proxies p reaches through args and kwargs, two levels deep.
Reach(p) ==
    {p} \cup DepsOf(p) \cup UNION {DepsOf(q) : q \in DepsOf(p)}

\* C19: in the diamond, every call that a thread has started ends; no
\* instance has its hook return twice or, when nothing raised, invoked
\* twice, no proxy is constructed twice, and when an activation has
\* returned, every proxy it reaches is entered with its hook run once.
C19_DiamondTerminates ==
    /\ \A c \in 1..NThreads : InCall(c) ~> ~InCall(c)
    /\ [](Diamond =>
            /\ \A p \in Proxies : Cardinality(ObjsOf(p)) <= 1
            /\ \A x \in DOMAIN objs :
                  objs[x].done <= 1 /\ objs[x].started <= 1 + nfail
            /\ \A c \in Callers : \A p \in Proxies :
                  Returned(c, {"enter"}, p) =>
                      \A q \in Reach(p) :
                          /\ entered[q][GlobalCell]
                          /\ objs[obj[q][GlobalCell]].done = 1)

\* Two threads activated the top and a side of the diamond; nothing raised
\* and the hook of each of the four instances ran once.
C19_Witness ==
    /\ Diamond /\ nfail = 0
    /\ \E c, d \in Callers :
          c # d /\ Returned(c, {"enter"}, 1) /\ Returned(d, {"enter"}, 3)
    /\ Len(objs) = 4
    /\ \A x \in DOMAIN objs : objs[x].started = 1 /\ objs[x].done = 1
    /\ \A c \in Callers : stack[c] = <<>>

\* The coroutine c is inside the async cleanup.
InCleanup(c) == stack[c] # <<>> /\ stack[c][1].fn = "cleanup"

\* C20: while a coroutine is inside the async cleanup, some coroutine of
\* its event loop can take a step: the loop's thread is never blocked on
\* _cleanup_lock while the coroutine that holds the lock waits for the
\* loop to resume it.
C20_CleanupCompletes ==
    \A c \in Callers : InCleanup(c) =>
        \E d \in Callers : threadOf[d] = threadOf[c] /\ ENABLED ThreadStep(d)

====
